---- MODULE Spec2Model ----
(***************************************************************************)
(* LineVisual (vispy/visuals/line.py): option state, lazy VBO rebuild,     *)
(* pluggable position / color input components and the hooks of the        *)
(* visual's ModularProgram.                                                *)
(*                                                                         *)
(* Every method of LineVisual is one action.  A method body is a           *)
(* composition of steps over a "world" record w that holds the whole       *)
(* program state; a step that raises sets w.raised and the steps after it  *)
(* are skipped, so the state an exception leaves behind is kept.           *)
(***************************************************************************)
EXTENDS Integers, Sequences, FiniteSets, TLC

VARIABLES
    opts,           \* v -> LineVisual._opts
    vbo,            \* v -> LineVisual._vbo
    data,           \* v -> LineVisual._data
    hooks,          \* v -> bindings of LineVisual._program
    posComp,        \* v -> LineVisual._pos_input_component
    colorComp,      \* v -> LineVisual._color_input_component
    compVisual,     \* component -> VisualComponent.visual
    XYInputFunc,    \* slots of LinePosInputComponent.XYInputFunc (class level)
    XYZInputFunc,   \* slots of LinePosInputComponent.XYZInputFunc (class level)
    frag_func,      \* color component -> slots of its frag_func
    support_func,   \* color component -> slots of its support_func
    compiled,       \* v -> the program's compiled cache is valid
    unseen,         \* history: v -> a slot of a bound Function was set after
                    \*   the last invalidation of the program's cache
    updated,        \* history: component -> update() ran since it was attached
    everFixed,      \* history: v -> the color option was once a fixed color
    stale,          \* history: v -> options assigned since the last _build_vbo
    appended,       \* history: v -> functions appended to each chain hook
    event           \* history: the last method call, its arguments and steps

vars == <<opts, vbo, data, hooks, posComp, colorComp, compVisual, XYInputFunc,
          XYZInputFunc, frag_func, support_func, compiled, unseen, updated,
          everFixed, stale, appended, event>>

----------------------------------------------------------------------------
(* Bounds of the model *)

MaxVerts == 2
MaxWidth == 2
MaxChain == 2

----------------------------------------------------------------------------
(* Values *)

Visuals == {"v1", "v2"}
PosComps == {"p1", "p2", "p3"}
ColorComps == {"c1", "c2", "c3"}
OwnPosComp(v) == IF v = "v1" THEN "p1" ELSE "p2"
OwnColorComp(v) == IF v = "v1" THEN "c1" ELSE "c2"

None == [kind |-> "None"]
IsNone(x) == x.kind = "None"

\* numpy position array of shape (n, dim)
PosArray(n, d) == [kind |-> "ndarray", n |-> n, dim |-> d]
\* a fixed colour given as a tuple, as a 1-d ndarray, or a (rows, 4) ndarray
ColorTuple(c) == [kind |-> "tuple", ndim |-> 1, rows |-> 0, rgba |-> c]
ColorVector(c) == [kind |-> "ndarray", ndim |-> 1, rows |-> 0, rgba |-> c]
ColorArray(m) == [kind |-> "ndarray", ndim |-> 2, rows |-> m, rgba |-> "each"]

\* a color given per vertex, as against one fixed color
PerVertex(color) == color.rows > 0

Width(k) == [kind |-> "scalar", w |-> k]

\* the arguments the calls are drawn from: (n, 2) arrays of every length and
\* full-length arrays of every trailing dimension; a white tuple, a red
\* vector and per-vertex arrays of every length
PosDims == {2, 3, 4}
PosInputs == {PosArray(n, 2) : n \in 0..MaxVerts}
               \cup {PosArray(MaxVerts, d) : d \in PosDims}
ColorInputs == {ColorTuple("white"), ColorVector("red")}
                 \cup {ColorArray(m) : m \in 1..MaxVerts}
WidthInputs == {Width(k) : k \in 1..MaxWidth}
\* the narrower choice of the specifications that vary other things
PosFew == {PosArray(0, 2), PosArray(MaxVerts, 2)}
ColorFew == {ColorVector("red"), ColorArray(MaxVerts)}
Transforms == {"NullTransform", "STTransform"}
Callbacks == {"cbA", "cbB"}

\* shader Functions, named by the attribute that holds them
Fn(name, owner) == [fn |-> name, of |-> owner]
NoFunc == Fn("None", "None")
XYFn == Fn("XYInputFunc", "LinePosInputComponent")
XYZFn == Fn("XYZInputFunc", "LinePosInputComponent")
FragFn(c) == Fn("frag_func", c)
SupportFn(c) == Fn("support_func", c)
CallbackFn(f) == Fn("callback", f)

\* slot bindings of a Function
Unbound == [kind |-> "unbound"]
Attribute(t, buf) == [kind |-> "attribute", type |-> t, buf |-> buf]
Uniform(t, val) == [kind |-> "uniform", type |-> t, value |-> val]
Varying(t, id) == [kind |-> "varying", type |-> t, id |-> id]

\* a gloo.VertexBuffer object, and a column view of one
VertexBuffer(id) == [kind |-> "VertexBuffer", id |-> id]
Column(buf, field) == [kind |-> "VertexBufferView", id |-> buf.id, field |-> field]

----------------------------------------------------------------------------
(* The world record and the steps of a method body *)

World == [opts |-> opts, vbo |-> vbo, data |-> data, hooks |-> hooks,
          posComp |-> posComp, colorComp |-> colorComp,
          compVisual |-> compVisual, XY |-> XYInputFunc, XYZ |-> XYZInputFunc,
          frag |-> frag_func, support |-> support_func,
          compiled |-> compiled, unseen |-> unseen,
          log |-> <<>>, raised |-> FALSE]

Step(w, name) == [w EXCEPT !.log = Append(@, name)]
Raise(w, name) == [w EXCEPT !.log = Append(@, name), !.raised = TRUE]

\* identities of new objects: the least one no reference in the state holds
Least(used) == CHOOSE k \in 0..Cardinality(used) :
                   k \notin used /\ \A j \in 0..(k - 1) : j \in used
BufIds(b) == IF b.kind = "attribute" /\ ~IsNone(b.buf) THEN {b.buf.id} ELSE {}
VarIds(b) == IF b.kind = "varying" THEN {b.id} ELSE {}
UsedBufIds(w) ==
    {w.vbo[v].id : v \in {u \in Visuals : ~IsNone(w.vbo[u])}}
      \cup BufIds(w.XY.xy_pos) \cup BufIds(w.XYZ.xyz_pos)
      \cup UNION {BufIds(w.support[c].input) : c \in ColorComps}
UsedVarIds(w) ==
    UNION {VarIds(w.frag[c].rgba) \cup VarIds(w.support[c].output) : c \in ColorComps}

\* Object identity up to renaming: the buffer a visual holds is written with
\* the visual's index, and every buffer no visual holds any more with 0.
VisualIndex(v) == IF v = "v1" THEN 1 ELSE 2
Holder(w, id) ==
    LET hs == {v \in Visuals : ~IsNone(w.vbo[v]) /\ w.vbo[v].id = id}
    IN  IF hs = {} THEN 0 ELSE VisualIndex(CHOOSE v \in hs : TRUE)
RenameBuf(w, b) ==
    IF b.kind = "attribute" /\ ~IsNone(b.buf)
    THEN [b EXCEPT !.buf.id = Holder(w, b.buf.id)] ELSE b
Renamed(w) ==
    [w EXCEPT
       !.vbo = [v \in Visuals |-> IF IsNone(w.vbo[v]) THEN None
                                  ELSE VertexBuffer(VisualIndex(v))],
       !.XY.xy_pos = RenameBuf(w, @),
       !.XYZ.xyz_pos = RenameBuf(w, @),
       !.support = [c \in ColorComps |->
                      [w.support[c] EXCEPT !.input = RenameBuf(w, @)]]]

----------------------------------------------------------------------------
(* Collaborators of line.py: ModularProgram, Function, VisualComponent,    *)
(* the transforms, numpy and gloo                                          *)

EmptyProgram == [local_position |-> NoFunc, map_local_to_nd |-> NoFunc,
                 frag_color |-> NoFunc, vert_post_hook |-> None,
                 frag_post_hook |-> None]
SingleHooks == {"local_position", "map_local_to_nd", "frag_color"}
ChainHooks == {"vert_post_hook", "frag_post_hook"}

\* a change of a hook binding invalidates the compiled cache
Invalidate(w, v) == [w EXCEPT !.compiled[v] = FALSE, !.unseen[v] = FALSE]

\* ModularProgram.add_chain(hook): the hook becomes an (empty) chain
add_chain(w, v, hook) ==
    Invalidate([w EXCEPT !.hooks[v][hook] = [kind |-> "chain", funcs |-> <<>>]], v)

\* ModularProgram.__setitem__(hook, func): replaces the hook's binding
SetHook(w, v, hook, func) == Invalidate([w EXCEPT !.hooks[v][hook] = func], v)

\* ModularProgram.add_callback(hook, func): appends to the chain
add_callback(w, v, hook, func) ==
    Invalidate([w EXCEPT !.hooks[v][hook].funcs = Append(@, func)], v)

\* the slots a Function's source names, with their bindings
Slots(w, f) ==
    CASE f = XYFn -> {w.XY.xy_pos, w.XY.z_pos}
      [] f = XYZFn -> {w.XYZ.xyz_pos}
      [] f.fn = "frag_func" -> {w.frag[f.of].rgba}
      [] f.fn = "support_func" -> {w.support[f.of].input, w.support[f.of].output}
      [] OTHER -> {}

ChainFuncs(h, hook) == {h[hook].funcs[i] : i \in 1..Len(h[hook].funcs)}
BoundFuncs(h) ==
    {h[k] : k \in SingleHooks} \cup UNION {ChainFuncs(h, k) : k \in ChainHooks}

\* Function.__setitem__(slot, binding), after the assignment: the programs
\* that have the Function bound have not been invalidated since
Touch(w, f) ==
    [w EXCEPT !.unseen = [u \in Visuals |->
                            @[u] \/ f \in BoundFuncs(w.hooks[u])]]

\* ModularProgram.draw(primitive): with a valid cache draws at once;
\* otherwise compiles first, and a declared hook with no Function and a
\* slot with no variable are fatal
draw(w, v) ==
    IF w.compiled[v] THEN Step(Step(w, "cache:hit"), "draw")
    ELSE IF \E k \in SingleHooks : w.hooks[v][k] = NoFunc
    THEN Raise(w, "draw:missing_hook")
    ELSE IF \E f \in BoundFuncs(w.hooks[v]) : Unbound \in Slots(w, f)
    THEN Raise(w, "draw:unresolved_slot")
    ELSE Step(Step([w EXCEPT !.compiled[v] = TRUE], "compile"), "draw")

\* Transform.shader_map(): the mapping Function of that transform
shader_map(t) == Fn("shader_map", t)

\* numpy.array(color)
asarray(color) == [color EXCEPT !.kind = "ndarray"]

\* VisualComponent._attach(visual)
Attach(w, c, v) == [w EXCEPT !.compVisual[c] = v]

\* VisualComponent._detach(visual) of a position component: unbinds the
\* Function it bound to local_position
DetachPos(w, c, v) ==
    LET h == w.hooks[v]
        lp == IF h.local_position \in {XYFn, XYZFn} THEN NoFunc
              ELSE h.local_position
    IN  Invalidate([w EXCEPT !.compVisual[c] = "None",
                             !.hooks[v].local_position = lp], v)

\* VisualComponent._detach(visual) of a color component: unbinds frag_func
\* from frag_color and support_func from the vert_post_hook chain
DetachColor(w, c, v) ==
    LET h == w.hooks[v]
        Keep(f) == f # SupportFn(c)
        fc == IF h.frag_color = FragFn(c) THEN NoFunc ELSE h.frag_color
    IN  Invalidate([w EXCEPT !.compVisual[c] = "None",
                             !.hooks[v].frag_color = fc,
                             !.hooks[v].vert_post_hook.funcs = SelectSeq(@, Keep)],
                   v)

----------------------------------------------------------------------------
(* LineVisual *)

\* set_data that assigns the options and leaves the built VBO in place
set_data_keeps_vbo(w, v, pos, color, width) ==
    LET o == w.opts[v]
        o1 == IF ~IsNone(pos) THEN [o EXCEPT !.pos = pos] ELSE o
        o2 == IF ~IsNone(color) THEN [o1 EXCEPT !.color = color] ELSE o1
        o3 == IF ~IsNone(width) THEN [o2 EXCEPT !.width = width] ELSE o2
    IN  [w EXCEPT !.opts[v] = o3]

\* set_data that assigns width without testing it against None
set_data_assigns_none(w, v, pos, color, width) ==
    LET o == w.opts[v]
        o1 == IF ~IsNone(pos) THEN [o EXCEPT !.pos = pos] ELSE o
        o2 == IF ~IsNone(color) THEN [o1 EXCEPT !.color = color] ELSE o1
    IN  [w EXCEPT !.opts[v] = [o2 EXCEPT !.width = width], !.vbo[v] = None]

\* LineVisual.set_data(pos, color, width)
set_data(w, v, pos, color, width) ==
    LET o == w.opts[v]
        o1 == IF ~IsNone(pos) THEN [o EXCEPT !.pos = pos] ELSE o
        o2 == IF ~IsNone(color) THEN [o1 EXCEPT !.color = color] ELSE o1
        o3 == IF ~IsNone(width) THEN [o2 EXCEPT !.width = width] ELSE o2
    IN  [w EXCEPT !.opts[v] = o3, !.vbo[v] = None]

\* LineVisual.transform (setter)
set_transform(w, v, tr) == [w EXCEPT !.opts[v].transform = tr]

\* LineVisual.add_fragment_callback(func)
add_fragment_callback(w, v, func) == add_callback(w, v, "frag_post_hook", func)

\* add_vertex_callback that appends to the fragment chain
add_vertex_callback_wrong_hook(w, v, func) ==
    add_callback(w, v, "frag_post_hook", func)

\* LineVisual.add_vertex_callback(func)
add_vertex_callback(w, v, func) == add_callback(w, v, "vert_post_hook", func)

\* LineVisual.pos_input_component (setter)
set_pos_input_component(w, v, component) ==
    LET old == w.posComp[v]
        w1 == IF old # "None"
              THEN [DetachPos(w, old, v) EXCEPT !.posComp[v] = "None"]
              ELSE w
        w2 == Attach(w1, component, v)
    IN  [w2 EXCEPT !.posComp[v] = component]

\* a color component setter that attaches the new component without
\* detaching the old one
set_color_input_component_no_detach(w, v, component) ==
    [Attach(w, component, v) EXCEPT !.colorComp[v] = component]

\* LineVisual.color_input_component (setter)
set_color_input_component(w, v, component) ==
    LET old == w.colorComp[v]
        w1 == IF old # "None"
              THEN [DetachColor(w, old, v) EXCEPT !.colorComp[v] = "None"]
              ELSE w
        w2 == Attach(w1, component, v)
    IN  [w2 EXCEPT !.colorComp[v] = component]

\* color_is_array that asks for more than two dimensions
color_is_array_off_by_one(color) == color.kind = "ndarray" /\ color.ndim > 2

\* color_is_array in LineVisual._build_vbo
color_is_array(color) == color.kind = "ndarray" /\ color.ndim > 1

\* numpy: assigning a (rows, 4) array to the color field of n records
\* broadcasts when rows is n or 1 and raises otherwise
Broadcasts(rows, n) == rows = n \/ rows = 1

\* LineVisual._build_vbo()
build_vbo(w, v) ==
    LET pos == w.opts[v].pos
        color == w.opts[v].color
        isarr == color_is_array(color)
        empty == [kind |-> "structured", pos |-> pos,
                  color |-> IF isarr THEN [kind |-> "empty"] ELSE None]
        full == [empty EXCEPT !.color = IF isarr THEN color ELSE None]
    IN  IF isarr /\ ~Broadcasts(color.rows, pos.n)
        THEN Raise([w EXCEPT !.data[v] = empty], "_build_vbo:raise")
        ELSE Step([w EXCEPT !.data[v] = full,
                            !.vbo[v] = VertexBuffer(Least(UsedBufIds(w) \cup {0}))],
                  "_build_vbo")

\* an update() whose 3D branch binds the slot but not the hook
pos_update_xyz_unhooked(w, c) ==
    LET v == w.compVisual[c] IN
    IF w.raised THEN w
    ELSE IF v = "None" \/ IsNone(w.data[v]) THEN Raise(w, "pos.update:raise")
    ELSE IF w.data[v].pos.dim = 2
    THEN IF IsNone(w.vbo[v]) THEN Raise(w, "pos.update:raise")
         ELSE Step(SetHook(Touch([w EXCEPT
                      !.XY.xy_pos = Attribute("vec2", Column(w.vbo[v], "pos")),
                      !.XY.z_pos = Uniform("float", 0)], XYFn),
                   v, "local_position", XYFn), "pos.update")
    ELSE Step(Touch([w EXCEPT !.XYZ.xyz_pos = Attribute("vec3", w.vbo[v])],
                    XYZFn), "pos.update")

\* LinePosInputComponent.update()
pos_update(w, c) ==
    LET v == w.compVisual[c] IN
    IF w.raised THEN w
    ELSE IF v = "None" \/ IsNone(w.data[v]) THEN Raise(w, "pos.update:raise")
    ELSE IF w.data[v].pos.dim = 2
    THEN IF IsNone(w.vbo[v]) THEN Raise(w, "pos.update:raise")
         ELSE Step(SetHook(Touch([w EXCEPT
                      !.XY.xy_pos = Attribute("vec2", Column(w.vbo[v], "pos")),
                      !.XY.z_pos = Uniform("float", 0)], XYFn),
                   v, "local_position", XYFn), "pos.update")
    ELSE Step(SetHook(Touch([w EXCEPT
                               !.XYZ.xyz_pos = Attribute("vec3", w.vbo[v])], XYZFn),
                      v, "local_position", XYZFn), "pos.update")

\* an update() that hands support_func the varying frag_func had before
color_update_stale_output(w, c) ==
    LET v == w.compVisual[c] IN
    IF w.raised THEN w
    ELSE IF v = "None" \/ IsNone(w.data[v]) THEN Raise(w, "color.update:raise")
    ELSE IF ~IsNone(w.data[v].color)
    THEN LET w1 == Touch([w EXCEPT !.frag[c].rgba =
                                      Varying("vec4", Least(UsedVarIds(w)))],
                          FragFn(c))
             w2 == SetHook(w1, v, "frag_color", FragFn(c))
             w3 == Step(add_callback(w2, v, "vert_post_hook", SupportFn(c)),
                        "color.add_callback")
         IN  IF IsNone(w3.vbo[v]) THEN Raise(w3, "color.update:raise")
             ELSE Step(Touch([w3 EXCEPT
                                !.support[c].input =
                                    Attribute("vec4", Column(w3.vbo[v], "color")),
                                !.support[c].output = w.frag[c].rgba],
                             SupportFn(c)),
                       "color.update")
    ELSE Step(SetHook(Touch([w EXCEPT !.frag[c].rgba =
                                   Uniform("vec4", asarray(w.opts[v].color))],
                            FragFn(c)),
                      v, "frag_color", FragFn(c)), "color.update")

\* LineColorInputComponent.update()
color_update(w, c) ==
    LET v == w.compVisual[c] IN
    IF w.raised THEN w
    ELSE IF v = "None" \/ IsNone(w.data[v]) THEN Raise(w, "color.update:raise")
    ELSE IF ~IsNone(w.data[v].color)
    THEN LET w1 == Touch([w EXCEPT !.frag[c].rgba =
                                      Varying("vec4", Least(UsedVarIds(w)))],
                          FragFn(c))
             w2 == SetHook(w1, v, "frag_color", FragFn(c))
             w3 == Step(add_callback(w2, v, "vert_post_hook", SupportFn(c)),
                        "color.add_callback")
         IN  IF IsNone(w3.vbo[v]) THEN Raise(w3, "color.update:raise")
             ELSE Step(Touch([w3 EXCEPT
                                !.support[c].input =
                                    Attribute("vec4", Column(w3.vbo[v], "color")),
                                !.support[c].output = w3.frag[c].rgba],
                             SupportFn(c)),
                       "color.update")
    ELSE Step(SetHook(Touch([w EXCEPT !.frag[c].rgba =
                                   Uniform("vec4", asarray(w.opts[v].color))],
                            FragFn(c)),
                      v, "frag_color", FragFn(c)), "color.update")

\* a rebuild that updates the color component before the position component
paint_rebuild_color_first(w, v) ==
    IF IsNone(w.vbo[v])
    THEN LET w1 == build_vbo(w, v)
             w2 == IF w1.raised THEN w1 ELSE color_update(w1, w1.colorComp[v])
         IN  IF w2.raised THEN w2 ELSE pos_update(w2, w2.posComp[v])
    ELSE w

\* paint: the rebuild of lines 202-207
paint_rebuild(w, v) ==
    IF IsNone(w.vbo[v])
    THEN LET w1 == build_vbo(w, v)
             w2 == IF w1.raised THEN w1 ELSE pos_update(w1, w1.posComp[v])
         IN  IF w2.raised THEN w2 ELSE color_update(w2, w2.colorComp[v])
    ELSE w

\* map_local_to_nd bound only when the VBO was rebuilt
paint_map_on_rebuild(w, v) ==
    IF \E i \in 1..Len(w.log) : w.log[i] = "_build_vbo"
    THEN Step(SetHook(w, v, "map_local_to_nd", shader_map(w.opts[v].transform)),
              "map_local_to_nd")
    ELSE Step(w, "map_local_to_nd")

\* paint: the binding of map_local_to_nd, line 210
paint_map(w, v) ==
    Step(SetHook(w, v, "map_local_to_nd", shader_map(w.opts[v].transform)),
         "map_local_to_nd")

\* a paint that returns early only when pos is None
paint_no_len_check(w, v) ==
    IF IsNone(w.opts[v].pos) THEN w
    ELSE LET w1 == paint_rebuild(w, v) IN
         IF w1.raised THEN w1
         ELSE draw(Step(paint_map(w1, v), "glLineWidth"), v)

\* a paint that binds map_local_to_nd before the rebuild
paint_map_first(w, v) ==
    IF IsNone(w.opts[v].pos) \/ w.opts[v].pos.n = 0 THEN w
    ELSE LET w1 == paint_rebuild(paint_map(w, v), v) IN
         IF w1.raised THEN w1
         ELSE draw(Step(w1, "glLineWidth"), v)

\* LineVisual.paint()
paint(w, v) ==
    IF IsNone(w.opts[v].pos) \/ w.opts[v].pos.n = 0 THEN w
    ELSE LET w1 == paint_rebuild(w, v) IN
         IF w1.raised THEN w1
         ELSE draw(Step(paint_map(w1, v), "glLineWidth"), v)

\* LineVisual.__init__(pos, color, width)
DefaultOpts == [pos |-> None, color |-> ColorTuple("white"),
                width |-> Width(1), transform |-> "None"]

init(w, v, pos, color, width) ==
    LET w1 == [w EXCEPT !.opts[v] = DefaultOpts, !.hooks[v] = EmptyProgram]
        w2 == set_transform(w1, v, "NullTransform")
        w3 == add_chain(add_chain(w2, v, "vert_post_hook"), v, "frag_post_hook")
        w4 == [w3 EXCEPT !.posComp[v] = "None", !.colorComp[v] = "None"]
        w5 == set_pos_input_component(Attach(w4, OwnPosComp(v), v),
                                      v, OwnPosComp(v))
        w6 == set_color_input_component(Attach(w5, OwnColorComp(v), v),
                                        v, OwnColorComp(v))
        w7 == [w6 EXCEPT !.vbo[v] = None]
    IN  set_data(w7, v, pos, color, width)

----------------------------------------------------------------------------
(* State machine *)

Blank ==
    [opts |-> [v \in Visuals |-> DefaultOpts],
     vbo |-> [v \in Visuals |-> None],
     data |-> [v \in Visuals |-> None],
     hooks |-> [v \in Visuals |-> EmptyProgram],
     posComp |-> [v \in Visuals |-> "None"],
     colorComp |-> [v \in Visuals |-> "None"],
     compVisual |-> [c \in PosComps \cup ColorComps |-> "None"],
     XY |-> [xy_pos |-> Unbound, z_pos |-> Unbound],
     XYZ |-> [xyz_pos |-> Unbound],
     frag |-> [c \in ColorComps |-> [rgba |-> Unbound]],
     support |-> [c \in ColorComps |-> [input |-> Unbound, output |-> Unbound]],
     compiled |-> [v \in Visuals |-> FALSE],
     unseen |-> [v \in Visuals |-> FALSE],
     log |-> <<>>, raised |-> FALSE]

Commit(w0) ==
    \E w \in {Renamed(w0)} :
    /\ opts' = w.opts
    /\ vbo' = w.vbo
    /\ data' = w.data
    /\ hooks' = w.hooks
    /\ posComp' = w.posComp
    /\ colorComp' = w.colorComp
    /\ compVisual' = w.compVisual
    /\ XYInputFunc' = w.XY
    /\ XYZInputFunc' = w.XYZ
    /\ frag_func' = w.frag
    /\ support_func' = w.support
    /\ compiled' = w.compiled
    /\ unseen' = w.unseen

Event(op, v, args, w) ==
    [op |-> op, v |-> v, args |-> args, log |-> w.log, raised |-> w.raised]

NoArgs == [none |-> TRUE]
Fresh == [data |-> FALSE, transform |-> FALSE]
NoAppends == [vert_post_hook |-> <<>>, frag_post_hook |-> <<>>, detached |-> FALSE]
InLog(w, name) == \E i \in 1..Len(w.log) : w.log[i] = name
\* the appends are followed until a color component is detached
NoteAppend(v, hook, f) ==
    IF appended[v].detached THEN appended
    ELSE [appended EXCEPT ![v][hook] = Append(@, f)]
Detached == [vert_post_hook |-> <<>>, frag_post_hook |-> <<>>, detached |-> TRUE]
ChainsBounded(w) ==
    \A v \in Visuals : \A k \in ChainHooks : Len(w.hooks[v][k].funcs) <= MaxChain

InitWith(p1, c1, w1, p2, c2, w2) ==
    \E w \in {Renamed(init(init(Blank, "v1", p1, c1, w1), "v2", p2, c2, w2))} :
        /\ opts = w.opts
        /\ vbo = w.vbo
        /\ data = w.data
        /\ hooks = w.hooks
        /\ posComp = w.posComp
        /\ colorComp = w.colorComp
        /\ compVisual = w.compVisual
        /\ XYInputFunc = w.XY
        /\ XYZInputFunc = w.XYZ
        /\ frag_func = w.frag
        /\ support_func = w.support
        /\ compiled = w.compiled
        /\ unseen = w.unseen
        /\ updated = [c \in PosComps \cup ColorComps |-> FALSE]
        /\ everFixed = [v \in Visuals |-> ~PerVertex(w.opts[v].color)]
        /\ stale = [v \in Visuals |-> Fresh]
        /\ appended = [v \in Visuals |-> NoAppends]
        /\ event = Event("__init__", "v1",
                         [pos |-> p1, color |-> c1, width |-> w1], w)

SetData(v, pos, color, width) ==
    \E w \in {set_data(World, v, pos, color, width)} :
    /\ Commit(w)
    /\ stale' = [stale EXCEPT ![v].data =
                    @ \/ (~IsNone(pos) /\ pos # opts[v].pos)
                      \/ (~IsNone(color) /\ color # opts[v].color)
                      \/ (~IsNone(width) /\ width # opts[v].width)]
    /\ everFixed' = [everFixed EXCEPT ![v] = @ \/ ~PerVertex(w.opts[v].color)]
    /\ event' = Event("set_data", v,
                      [pos |-> pos, color |-> color, width |-> width], w)
    /\ UNCHANGED <<appended, updated>>

SetTransform(v, tr) ==
    \E w \in {set_transform(World, v, tr)} :
    /\ Commit(w)
    /\ stale' = [stale EXCEPT ![v].transform = @ \/ tr # opts[v].transform]
    /\ event' = Event("transform", v, [tr |-> tr], w)
    /\ UNCHANGED <<appended, updated, everFixed>>

AddFragmentCallback(v, f) ==
    \E w \in {add_fragment_callback(World, v, CallbackFn(f))} :
    /\ ChainsBounded(w)
    /\ Commit(w)
    /\ appended' = NoteAppend(v, "frag_post_hook", CallbackFn(f))
    /\ event' = Event("add_fragment_callback", v, [func |-> f], w)
    /\ UNCHANGED <<stale, updated, everFixed>>

AddVertexCallback(v, f) ==
    \E w \in {add_vertex_callback(World, v, CallbackFn(f))} :
    /\ ChainsBounded(w)
    /\ Commit(w)
    /\ appended' = NoteAppend(v, "vert_post_hook", CallbackFn(f))
    /\ event' = Event("add_vertex_callback", v, [func |-> f], w)
    /\ UNCHANGED <<stale, updated, everFixed>>

SetPosInputComponent(v, c) ==
    \E w \in {set_pos_input_component(World, v, c)} :
    /\ Commit(w)
    /\ updated' = [updated EXCEPT ![posComp[v]] = FALSE, ![c] = FALSE]
    /\ event' = Event("pos_input_component", v, [component |-> c], w)
    /\ UNCHANGED <<stale, appended, everFixed>>

SetColorInputComponent(v, c) ==
    \E w \in {set_color_input_component(World, v, c)} :
    /\ Commit(w)
    /\ appended' = [appended EXCEPT ![v] = Detached]
    /\ updated' = [updated EXCEPT ![colorComp[v]] = FALSE, ![c] = FALSE]
    /\ event' = Event("color_input_component", v, [component |-> c], w)
    /\ UNCHANGED <<stale, everFixed>>

Paint(v) ==
    \E w \in {paint(World, v)}, cc \in {colorComp[v]} :
    \E tv \in {compVisual[cc]} :
    /\ ChainsBounded(w)
    /\ Commit(w)
    /\ stale' = IF InLog(w, "_build_vbo") THEN [stale EXCEPT ![v] = Fresh]
                ELSE stale
    /\ appended' = IF InLog(w, "color.add_callback")
                   THEN NoteAppend(tv, "vert_post_hook", SupportFn(cc))
                   ELSE appended
    /\ updated' = [c \in PosComps \cup ColorComps |->
                      \/ updated[c]
                      \/ c = posComp[v] /\ InLog(w, "pos.update")
                      \/ c = cc /\ InLog(w, "color.update")]
    /\ event' = Event("paint", v, NoArgs, w)
    /\ UNCHANGED everFixed

\* a component no other visual holds
Unshared(v, c) ==
    \A u \in Visuals \ {v} : posComp[u] # c /\ colorComp[u] # c

(* The rebuild cycle of one visual: every position and color shape *)
Init == \E p \in PosInputs \cup {None}, c \in ColorInputs \cup {None} :
            InitWith(p, c, None, None, None, None)

Next ==
    \E v \in {"v1"} :
        \/ \E p \in PosInputs \cup {None}, c \in ColorInputs \cup {None} :
              SetData(v, p, c, None)
        \/ Paint(v)

Spec == Init /\ [][Next]_vars

(* The options of one visual: width and transform as well *)
InitOpts == \E p \in PosFew \cup {None}, c \in ColorFew \cup {None},
               wd \in WidthInputs \cup {None} : InitWith(p, c, wd, None, None, None)

NextOpts ==
    \E v \in {"v1"} :
        \/ \E p \in PosFew \cup {None}, c \in ColorFew \cup {None},
              wd \in WidthInputs \cup {None} : SetData(v, p, c, wd)
        \/ \E tr \in Transforms : SetTransform(v, tr)
        \/ Paint(v)

SpecOpts == InitOpts /\ [][NextOpts]_vars

(* The chain hooks of one visual: callbacks and color updates *)
InitChain == \E c \in ColorFew \cup {None} :
                InitWith(PosArray(MaxVerts, 2), c, None, None, None, None)

NextChain ==
    \E v \in {"v1"} :
        \/ \E c \in ColorFew : SetData(v, None, c, None)
        \/ \E f \in Callbacks : AddFragmentCallback(v, f)
        \/ \E f \in Callbacks : AddVertexCallback(v, f)
        \/ Paint(v)

SpecChain == InitChain /\ [][NextChain]_vars

(* The components of one visual: replacement by a component no other      *)
(* visual holds                                                            *)
InitHooks == \E c \in ColorFew \cup {None} :
                InitWith(PosArray(MaxVerts, 2), c, None, None, None, None)

NextHooks ==
    \E v \in {"v1"} :
        \/ \E c \in ColorFew : SetData(v, None, c, None)
        \/ AddVertexCallback(v, "cbA")
        \/ \E c \in {c \in PosComps : Unshared(v, c)} : SetPosInputComponent(v, c)
        \/ \E c \in {c \in ColorComps : Unshared(v, c)} : SetColorInputComponent(v, c)
        \/ Paint(v)

SpecHooks == InitHooks /\ [][NextHooks]_vars

(* Two visuals, and components handed from one to the other *)
InitShare == \E c \in ColorFew :
                InitWith(PosArray(MaxVerts, 2), c, None,
                         PosArray(MaxVerts, 2), c, None)

NextShare ==
    \E v \in Visuals :
        \/ \E u \in Visuals : SetPosInputComponent(v, OwnPosComp(u))
        \/ \E u \in Visuals : SetColorInputComponent(v, OwnColorComp(u))
        \/ Paint(v)

SpecShare == InitShare /\ [][NextShare]_vars

(* Two visuals, each with its own components, painted in any order *)
PosPlanar == {PosArray(MaxVerts, 2), PosArray(MaxVerts, 3)}

InitTwo == \E p1 \in PosPlanar, p2 \in PosPlanar :
              InitWith(p1, None, None, p2, None, None)

NextTwo ==
    \E v \in Visuals :
        \/ \E p \in PosPlanar : SetData(v, p, None, None)
        \/ Paint(v)

SpecTwo == InitTwo /\ [][NextTwo]_vars

----------------------------------------------------------------------------
(* Properties *)

EvLog(name) == \E i \in 1..Len(event.log) : event.log[i] = name
Painted(v) == event.op = "paint" /\ event.v = v
Drew(v) == Painted(v) /\ EvLog("draw")
NonEmpty(pos) == ~IsNone(pos) /\ pos.n > 0

\* C1, as stated: whenever pos, color, width or transform has changed since
\* the VBO was last built, _vbo is None; and no draw is issued while _vbo is
\* None.
C1_AnyOptionInvalidates ==
    \A v \in Visuals :
        /\ (stale[v].data \/ stale[v].transform) => IsNone(vbo[v])
        /\ Drew(v) => ~IsNone(vbo[v])

\* C1, amended: whenever pos, color or width has changed since the VBO was
\* last built, _vbo is None (a transform assignment leaves the VBO in
\* place); and no draw is issued while _vbo is None.
C1_DataInvalidates ==
    \A v \in Visuals :
        /\ stale[v].data => IsNone(vbo[v])
        /\ Drew(v) => ~IsNone(vbo[v])

\* a set_data that changed an option of a visual whose VBO had been built
C1_Witness ==
    /\ event.op = "set_data"
    /\ stale["v1"].data
    /\ ~IsNone(data["v1"])
    /\ hooks["v1"].local_position # NoFunc
    /\ IsNone(vbo["v1"])

\* C2: after a color update in uniform mode, the vert_post_hook chain does
\* not contain the color component's support function and no slot of the
\* component's Functions is bound to a varying.
C2_NoResidue ==
    \A v \in Visuals :
        (Painted(v) /\ EvLog("color.update") /\ IsNone(data[v].color)) =>
            LET c == colorComp[v] IN
            /\ SupportFn(c) \notin ChainFuncs(hooks[v], "vert_post_hook")
            /\ frag_func[c].rgba.kind # "varying"
            /\ support_func[c].output.kind # "varying"

\* C3: a paint that rebuilt the VBO binds XYInputFunc to local_position when
\* the position data's trailing dimension is 2 and XYZInputFunc when it is
\* 3, and for any other trailing dimension raises and draws nothing.
C3_PosMode ==
    \A v \in Visuals :
        (Painted(v) /\ EvLog("_build_vbo")) =>
            LET d == data[v].pos.dim IN
            /\ d = 2 => hooks[v].local_position = XYFn /\ EvLog("pos.update")
            /\ d = 3 => hooks[v].local_position = XYZFn /\ EvLog("pos.update")
            /\ d \notin {2, 3} => event.raised /\ ~EvLog("pos.update")
                                    /\ ~EvLog("draw")

\* the four steps of the cycle, as they appear in a paint's log
IsCycleStep(x) == x \in {"_build_vbo", "pos.update", "color.update", "draw"}
FullCycle == <<"_build_vbo", "pos.update", "color.update", "draw">>
DataCurrent(v) ==
    /\ ~IsNone(data[v])
    /\ data[v].pos = opts[v].pos
    /\ IsNone(data[v].color) \/ data[v].color = opts[v].color
UpdatesOnCurrentData ==
    \A v \in Visuals :
        (Painted(v) /\ (EvLog("pos.update") \/ EvLog("color.update"))) =>
            ~IsNone(vbo[v]) /\ DataCurrent(v)

\* C4, as stated: the paint that follows a set_data, with pos non-empty,
\* runs rebuild, pos update, color update and draw in this order; no update
\* runs while _vbo is None or _data is older than the options.
C4_CycleAlways ==
    [][\A v \in Visuals :
          (event'.op = "paint" /\ event'.v = v /\ IsNone(vbo[v])
             /\ NonEmpty(opts[v].pos)) =>
              /\ SelectSeq(event'.log, IsCycleStep) = FullCycle
              /\ UpdatesOnCurrentData']_vars

\* C4, amended: the paint that follows a set_data, with pos non-empty,
\* either runs rebuild, pos update, color update and draw in this order, or
\* (the color array's length being neither the vertex count nor 1) raises
\* in _build_vbo and runs no update and no draw; no update runs while _vbo
\* is None or _data is older than the options.
C4_CycleUnlessShapeError ==
    [][\A v \in Visuals :
          (event'.op = "paint" /\ event'.v = v /\ IsNone(vbo[v])
             /\ NonEmpty(opts[v].pos)) =>
              /\ \/ SelectSeq(event'.log, IsCycleStep) = FullCycle
                 \/ /\ event'.log = <<"_build_vbo:raise">>
                    /\ PerVertex(opts[v].color)
                    /\ opts[v].color.rows \notin {1, opts[v].pos.n}
              /\ UpdatesOnCurrentData']_vars

\* a second full cycle: a paint that rebuilt after a set_data on a visual
\* that had been painted before
C4_Witness ==
    /\ Drew("v1")
    /\ SelectSeq(event.log, IsCycleStep) = FullCycle
    /\ Len(hooks["v1"].vert_post_hook.funcs) = 2

\* C5: the constructor leaves each option at the value passed or, none
\* passed, at its default; every set_data leaves each of pos, color and
\* width at the value passed or, none passed, at its prior value, leaves
\* the transform alone and leaves _vbo None.
C5_PartialUpdate ==
    /\ event.op = "__init__" =>
          LET a == event.args  o == opts[event.v] IN
          /\ o.pos = a.pos
          /\ o.color = IF IsNone(a.color) THEN ColorTuple("white") ELSE a.color
          /\ o.width = IF IsNone(a.width) THEN Width(1) ELSE a.width
          /\ IsNone(vbo[event.v])
    /\ [][event'.op = "set_data" =>
            LET a == event'.args  v == event'.v IN
            /\ opts'[v].pos = IF IsNone(a.pos) THEN opts[v].pos ELSE a.pos
            /\ opts'[v].color = IF IsNone(a.color) THEN opts[v].color ELSE a.color
            /\ opts'[v].width = IF IsNone(a.width) THEN opts[v].width ELSE a.width
            /\ opts'[v].transform = opts[v].transform
            /\ IsNone(vbo'[v])]_vars

\* a set_data(color=...) on a painted visual that kept the pos and the
\* width of earlier calls
C5_Witness ==
    /\ event.op = "set_data"
    /\ IsNone(event.args.pos) /\ IsNone(event.args.width)
    /\ ~IsNone(event.args.color)
    /\ NonEmpty(opts["v1"].pos)
    /\ opts["v1"].width = Width(2)
    /\ ~IsNone(data["v1"])

\* C6: after a paint that rebuilt the VBO, frag_color is bound to the color
\* component's frag_func, whose 'rgba' slot is bound to a varying exactly
\* when the color option is a per-vertex array, and otherwise to a uniform
\* holding the fixed color.
C6_ColorMode ==
    \A v \in Visuals :
        (Painted(v) /\ EvLog("color.update")) =>
            LET c == colorComp[v]
                rgba == frag_func[c].rgba
            IN  /\ hooks[v].frag_color = FragFn(c)
                /\ rgba.kind = "varying" <=> PerVertex(opts[v].color)
                /\ ~PerVertex(opts[v].color) =>
                      /\ rgba.kind = "uniform"
                      /\ rgba.value.rgba = opts[v].color.rgba

\* a rebuild in each mode: per-vertex after uniform
C6_Witness ==
    /\ Drew("v1") /\ EvLog("color.update")
    /\ PerVertex(opts["v1"].color)
    /\ frag_func["c1"].rgba.kind = "varying"
    /\ support_func["c1"].input.kind = "attribute"

\* C7: at every draw, map_local_to_nd is bound to the shader_map() of the
\* visual's current transform.
C7_MapIsCurrentTransform ==
    \A v \in Visuals :
        Drew(v) => hooks[v].map_local_to_nd = Fn("shader_map", opts[v].transform)

\* a draw without rebuild after the transform alone was assigned
C7_Witness ==
    /\ Drew("v1") /\ ~EvLog("_build_vbo")
    /\ stale["v1"].transform
    /\ opts["v1"].transform = "STTransform"

\* C8: a component setter detaches the old component and then attaches the
\* new one; the detach clears local_position (position component), or
\* frag_color and the component's support function in vert_post_hook (color
\* component), if the old component had bound them, and leaves every other
\* binding of the program as it was.
C8_DetachExact ==
    [][\A v \in Visuals :
          /\ (event'.op = "pos_input_component" /\ event'.v = v) =>
                LET old == posComp[v]
                    new == event'.args.component
                    h == hooks[v]
                IN  /\ posComp'[v] = new
                    /\ compVisual'[new] = v
                    /\ old # new => compVisual'[old] = "None"
                    /\ hooks'[v] = [h EXCEPT !.local_position = NoFunc]
                    /\ colorComp'[v] = colorComp[v]
          /\ (event'.op = "color_input_component" /\ event'.v = v) =>
                LET old == colorComp[v]
                    new == event'.args.component
                    h == hooks[v]
                    NotOld(f) == f # Fn("support_func", old)
                IN  /\ colorComp'[v] = new
                    /\ compVisual'[new] = v
                    /\ old # new => compVisual'[old] = "None"
                    /\ hooks'[v] =
                         [h EXCEPT !.frag_color =
                                      IF @ = Fn("frag_func", old) THEN NoFunc ELSE @,
                                   !.vert_post_hook.funcs = SelectSeq(@, NotOld)]
                    /\ posComp'[v] = posComp[v]]_vars

\* the color component c1, updated in per-vertex mode, replaced by c3: its
\* bindings are gone and the callback and the position binding are kept
C8_Witness ==
    /\ event.op = "color_input_component"
    /\ colorComp["v1"] = "c3" /\ compVisual["c1"] = "None"
    /\ support_func["c1"].output.kind = "varying"
    /\ hooks["v1"].frag_color = NoFunc
    /\ hooks["v1"].vert_post_hook.funcs = <<CallbackFn("cbA")>>
    /\ hooks["v1"].local_position = XYFn
    /\ hooks["v1"].map_local_to_nd # NoFunc

\* C9: no component is the pos or color input component of two visuals.
C9_OneVisualPerComponent ==
    \A u \in Visuals : \A v \in Visuals \ {u} :
        /\ posComp[u] # posComp[v]
        /\ colorComp[u] # colorComp[v]

\* C10: each chain hook lists the functions appended to it by
\* add_vertex_callback / add_fragment_callback and by the color updates,
\* once per append and in the order of the appends.
C10_ChainIsAppendOrder ==
    \A v \in Visuals :
        ~appended[v].detached =>
            /\ hooks[v].vert_post_hook =
                 [kind |-> "chain", funcs |-> appended[v].vert_post_hook]
            /\ hooks[v].frag_post_hook =
                 [kind |-> "chain", funcs |-> appended[v].frag_post_hook]

\* a color update's append in front of a callback's, and two fragment
\* callbacks in an order that is not alphabetical
C10_Witness ==
    /\ hooks["v1"].vert_post_hook.funcs = <<SupportFn("c1"), CallbackFn("cbA")>>
    /\ hooks["v1"].frag_post_hook.funcs = <<CallbackFn("cbB"), CallbackFn("cbA")>>

\* C11: at every draw issued by paint, the program's compiled cache has been
\* invalidated after the most recent change of a hook binding and after the
\* most recent assignment to a slot of a Function bound in the program.
C11_InvalidatedAfterLastChange ==
    \A v \in Visuals : Drew(v) => ~unseen[v] /\ EvLog("compile")

\* a draw after an update() in per-vertex mode, which sets the slots of
\* support_func after its last change of the program
C11_Witness ==
    /\ Drew("v1")
    /\ EvLog("color.add_callback")
    /\ PerVertex(opts["v1"].color)
    /\ support_func[colorComp["v1"]].output = frag_func[colorComp["v1"]].rgba
    /\ compiled["v1"]

\* C12: at every draw issued by paint (paint reached program.draw), each of
\* local_position, map_local_to_nd and frag_color has a bound Function and
\* vert_post_hook and frag_post_hook are declared chains, so the draw does
\* not fail on a missing hook.
C12_HooksBoundAtDraw ==
    \A v \in Visuals :
        Painted(v) /\ EvLog("glLineWidth") =>
            /\ \A k \in SingleHooks : hooks[v][k] # NoFunc
            /\ \A k \in ChainHooks : hooks[v][k].kind = "chain"
            /\ ~EvLog("draw:missing_hook")

\* C13: a paint of non-empty positions with a per-vertex color array whose
\* length differs from the vertex count raises in _build_vbo before any
\* VertexBuffer is created: it calls no update(), issues no draw and leaves
\* _vbo None.
C13_MismatchRaisesBeforeVbo ==
    \A v \in Visuals :
        (/\ Painted(v)
         /\ NonEmpty(opts[v].pos)
         /\ PerVertex(opts[v].color)
         /\ opts[v].color.rows # opts[v].pos.n)
        => /\ event.raised
           /\ event.log = <<"_build_vbo:raise">>
           /\ IsNone(vbo[v])

\* C14: a paint that directly follows a paint of the same visual that drew
\* (no set_data, transform assignment, callback addition or component
\* replacement in between) assigns no hook and leaves the compiled cache
\* valid, so its draw does not compile.
C14_IdlePaintKeepsCache ==
    [][(Drew(event.v) /\ event'.op = "paint" /\ event'.v = event.v)
       => \A i \in 1..Len(event'.log) :
              event'.log[i] \notin {"map_local_to_nd", "compile"}]_vars

\* C15: after every update() of the color component in per-vertex mode,
\* support_func's 'output' and frag_func's 'rgba' are bound to one and the
\* same varying, and support_func's 'input' is bound to the color column of
\* the visual's current VBO.
C15_SupportFeedsFrag ==
    \A v \in Visuals :
        Painted(v) /\ EvLog("color.update") /\ PerVertex(opts[v].color) =>
            LET c == colorComp[v] IN
            /\ frag_func[c].rgba.kind = "varying"
            /\ support_func[c].output = frag_func[c].rgba
            /\ ~IsNone(vbo[v])
            /\ support_func[c].input = Attribute("vec4", Column(vbo[v], "color"))

\* a repeated update(): the second rebuild with a per-vertex color
C15_Witness ==
    /\ Painted("v1") /\ EvLog("color.update") /\ PerVertex(opts["v1"].color)
    /\ Len(hooks["v1"].vert_post_hook.funcs) = 2
    /\ support_func["c1"].output = frag_func["c1"].rgba

\* C16: after any update() of the position component, local_position holds
\* exactly one of XYInputFunc and XYZInputFunc, the one update() chose for
\* the data's last axis (XYInputFunc for length 2, XYZInputFunc otherwise);
\* a switch between 2D and 3D data replaces the other one.
C16_OnePosFunc ==
    \A v \in Visuals :
        Painted(v) /\ EvLog("pos.update") =>
            /\ hooks[v].local_position \in {XYFn, XYZFn}
            /\ hooks[v].local_position = XYFn <=> data[v].pos.dim = 2
            /\ \A k \in ChainHooks : \A i \in 1..Len(hooks[v][k].funcs) :
                   hooks[v][k].funcs[i] \notin {XYFn, XYZFn}

\* an update() on 3D data after XYInputFunc's slots were bound by an earlier
\* update() on 2D data
C16_Witness ==
    /\ Painted("v1") /\ EvLog("pos.update")
    /\ data["v1"].pos.dim = 3
    /\ XYInputFunc.xy_pos # Unbound
    /\ hooks["v1"].local_position = XYZFn

\* C17: with two LineVisuals painted in any interleaving, at every draw of a
\* visual the position attribute of the Function bound to its
\* local_position hook is bound to that visual's own current VBO.
C17_DrawUsesOwnVbo ==
    \A v \in Visuals :
        Drew(v) =>
            IF hooks[v].local_position = XYFn
            THEN XYInputFunc.xy_pos = Attribute("vec2", Column(vbo[v], "pos"))
            ELSE XYZInputFunc.xyz_pos = Attribute("vec3", vbo[v])

\* C18: while the color option has been a per-vertex array at every
\* construction and set_data, across any number of set_data calls and
\* paints, vert_post_hook holds the color component's support function at
\* most once.
C18_SupportOnce ==
    \A v \in Visuals :
        ~everFixed[v] =>
            Cardinality({i \in 1..Len(hooks[v].vert_post_hook.funcs) :
                hooks[v].vert_post_hook.funcs[i] = SupportFn(colorComp[v])}) <= 1

\* C19: at every draw a paint issues, the update() of the visual's position
\* component and of its color component has run since that component was
\* attached, so the draw uses no binding of a component that was replaced.
C19_UpdateBeforeDraw ==
    \A v \in Visuals :
        Painted(v) /\ EvLog("glLineWidth") =>
            updated[posComp[v]] /\ updated[colorComp[v]]

\* a paint of v that nothing else separates from the call that gave v its
\* (non-empty) positions
FirstPaintOf(v) ==
    /\ event.op \in {"__init__", "set_data"} /\ event.v = v
    /\ ~IsNone(event.args.pos)
    /\ NonEmpty(opts[v].pos)
    /\ event'.op = "paint" /\ event'.v = v

\* a paint of v while pos is None or has no vertex does nothing at all
EmptyPaintIsNoOp(v) ==
    (event'.op = "paint" /\ event'.v = v /\ ~NonEmpty(opts[v].pos)) =>
        /\ event'.log = <<>>
        /\ UNCHANGED <<opts, vbo, data, hooks, XYInputFunc, XYZInputFunc,
                       frag_func, support_func, compiled>>

BuiltAndDrew(v) ==
    /\ ~IsNone(vbo'[v])
    /\ \E i \in 1..Len(event'.log) : event'.log[i] = "_build_vbo"
    /\ event'.log[Len(event'.log)] = "draw"

\* C20, as stated: while pos is None or has zero vertices a paint builds no
\* VBO, calls no update(), assigns no hook and issues no draw; the first
\* paint after pos becomes non-empty builds the VBO and draws.
C20_EmptyThenDraws ==
    [][\A v \in Visuals :
          /\ EmptyPaintIsNoOp(v)
          /\ FirstPaintOf(v) => BuiltAndDrew(v)]_vars

\* C20, amended: the same, except that the first paint after pos becomes
\* non-empty raises in _build_vbo, with _vbo left None and no draw, when the
\* color option is a per-vertex array whose length is neither the vertex
\* count nor 1.
C20_EmptyThenDrawsUnlessShapeError ==
    [][\A v \in Visuals :
          /\ EmptyPaintIsNoOp(v)
          /\ FirstPaintOf(v) =>
                IF PerVertex(opts[v].color)
                   /\ ~Broadcasts(opts[v].color.rows, opts[v].pos.n)
                THEN event'.log = <<"_build_vbo:raise">> /\ IsNone(vbo'[v])
                ELSE BuiltAndDrew(v)]_vars

\* a paint on positions with zero vertices that did nothing
C20_Witness ==
    /\ Painted("v1")
    /\ ~IsNone(opts["v1"].pos) /\ opts["v1"].pos.n = 0
    /\ event.log = <<>>
    /\ IsNone(vbo["v1"])

====
